---- MODULE Spec2Model ----
(***************************************************************************)
(* Model of the agricultural market advisor: the synthetic data source     *)
(* (data_collector.py), the three analyzers and their aggregator           *)
(* (data_analyzer.py), the advisory cache and requester                    *)
(* (llm_interface.py) and the command-line run (cli.py).                   *)
(*                                                                         *)
(* Numbers: prices, temperatures and precipitation are integers; every     *)
(* derived figure (mean, percentage, score) is an exact fraction           *)
(* [num, den] with den > 0, and a threshold test x > k is num > k * den.   *)
(* Time: `now` counts clock ticks; SecondsPerDay ticks make one day.       *)
(***************************************************************************)
EXTENDS Integers, Sequences, FiniteSets, TLC

VARIABLES
  now,              \* datetime.now()
  priceFile,        \* data/historical_prices.csv
  newsFile,         \* data/market_news.csv
  weatherFile,      \* data/weather_forecast.csv
  analysis_results, \* DataAnalyzer.analysis_results
  cache,            \* cache/<key>.json, by cache key
  call,             \* the last analyzer / aggregator call and what it returned
  requested,        \* the (crop, timeframe) pairs get_comprehensive_analysis was called with
  adv,              \* the last get_advisory call and what it returned
  run               \* the last command-line run and how it ended

vars == <<now, priceFile, newsFile, weatherFile, analysis_results, cache, call, requested, adv, run>>

----------------------------------------------------------------------------
(* Bounds of the model *)

\* clock ticks in one day (86400 seconds in the program)
SecondsPerDay == 2
\* the clock stops advancing here
MaxNow == 2
\* rows of a generated dataset (731 price days, 15 forecast days in the program)
GenLen == 2
\* rows of a dataset in the pure-analyzer specifications
MaxRows == 3

----------------------------------------------------------------------------
(* Python values *)

PyNone == [none |-> TRUE]
EmptyDict == [k \in {} |-> 0]
NaN == [nan |-> TRUE]

\* dict.get(key, default)
PyGet(d, key, default) == IF key \in DOMAIN d THEN d[key] ELSE default
\* dict.get(key): the value, or None
PyGetOrNone(d, key) == IF key \in DOMAIN d THEN [value |-> d[key]] ELSE PyNone

Rat(n, d) == [num |-> n, den |-> d]
RatGT(r, k) == r.num > k * r.den
RatLT(r, k) == r.num < k * r.den
RatEq(r, s) == r.num * s.den = s.num * r.den

RECURSIVE SumSeq(_)
SumSeq(s) == IF s = <<>> THEN 0 ELSE Head(s) + SumSeq(Tail(s))

RECURSIVE MapField(_, _)
MapField(rows, f) == IF rows = <<>> THEN <<>> ELSE <<Head(rows)[f]>> \o MapField(Tail(rows), f)

\* Series.mean()
Mean(xs) == Rat(SumSeq(xs), Len(xs))

\* Series.std() squared: the sample variance (ddof = 1); NaN for one point
Variance(xs) ==
  IF Len(xs) < 2 THEN NaN
  ELSE Rat(Len(xs) * SumSeq([i \in 1..Len(xs) |-> xs[i] * xs[i]]) - SumSeq(xs) * SumSeq(xs),
           Len(xs) * (Len(xs) - 1))

\* Series.iloc[a:b] with negative offsets a = -from, b = -upto (upto = 0: to the end)
ILocLast(xs, from, upto) ==
  SubSeq(xs, (IF Len(xs) - from < 0 THEN 0 ELSE Len(xs) - from) + 1, Len(xs) - upto)

----------------------------------------------------------------------------
(* data_collector.py *)

NoFile == [exists |-> FALSE]
CsvFile(rows) == [exists |-> TRUE, rows |-> rows]

\* DataFrame.to_csv writes a timestamp as text; pd.read_csv reads it back as text
DateStr(t) == [iso |-> t]
Timestamp(t) == [ts |-> t]
IsStr(d) == "iso" \in DOMAIN d
\* pd.to_datetime
ToDatetime(d) == IF IsStr(d) THEN Timestamp(d.iso) ELSE d

ToCsv(rows) == [i \in 1..Len(rows) |-> [rows[i] EXCEPT !.date = DateStr(rows[i].date.ts)]]

\* pd.date_range(start = t - (n-1) days, end = t, freq = 'D'), n rows
DateRange(t, n) == [i \in 1..n |-> Timestamp(t - (n - i) * SecondsPerDay)]

\* the synthetic prices: base + trend + seasonality + noise, any of these values
PriceVals == {100, 106}
GenPrices == [1..GenLen -> PriceVals]
PriceRows(crop, t, prices) ==
  [i \in 1..Len(prices) |-> [date |-> DateRange(t, Len(prices))[i], crop |-> crop, price |-> prices[i]]]

\* load_or_fetch_historical_prices: <<file afterwards, the DataFrame returned>>
LoadPrices(file, crop, force_refresh, t, prices) ==
  IF ~force_refresh /\ file.exists
    THEN <<file, file.rows>>
    ELSE <<CsvFile(ToCsv(PriceRows(crop, t, prices))), PriceRows(crop, t, prices)>>

\* news_samples: the sentiment of each of the six sample headlines
NewsSamples == <<"positive", "positive", "negative", "neutral", "negative", "positive">>
\* the samples drawn by random.choice over the date range: at most GenLen of them
GenNews == UNION {[1..n -> 1..Len(NewsSamples)] : n \in 0..GenLen}
NewsRows(crop, t, picks) ==
  [i \in 1..Len(picks) |-> [date |-> Timestamp(t), crop |-> crop,
                            headline |-> <<picks[i], crop>>, sentiment |-> NewsSamples[picks[i]]]]

\* load_or_fetch_market_news: <<file afterwards, the DataFrame returned>>
LoadNews(file, crop, force_refresh, t, picks) ==
  IF ~force_refresh /\ file.exists
    THEN <<file, file.rows>>
    ELSE <<CsvFile(ToCsv(NewsRows(crop, t, picks))), NewsRows(crop, t, picks)>>

\* random.uniform(15, 30) and random.uniform(0, 20), any of these values per day
GenTemps == {16, 28}
GenPrecips == {0, 8}
GenWeather == [1..GenLen -> GenTemps \X GenPrecips]
WeatherRows(region, t, days) ==
  [i \in 1..Len(days) |-> [date |-> Timestamp(t + (i - 1) * SecondsPerDay), region |-> region,
                           temperature |-> days[i][1], precipitation |-> days[i][2],
                           conditions |-> "sunny"]]

\* load_or_fetch_weather_forecast: <<file afterwards, the DataFrame returned>>
LoadWeather(file, region, force_refresh, t, days) ==
  IF ~force_refresh /\ file.exists
    THEN <<file, file.rows>>
    ELSE <<CsvFile(ToCsv(WeatherRows(region, t, days))), WeatherRows(region, t, days)>>

----------------------------------------------------------------------------
(* data_analyzer.py: the three analyzers, on the DataFrame they loaded *)

\* what a call gives back: a value, None, or an exception
Returned(v) == [kind |-> "value", value |-> v]
ReturnedNone == [kind |-> "none"]
Raised(e) == [kind |-> "raise", error |-> e]

\* timeframe label to days
DaysOf(timeframe) ==
  CASE timeframe = "1 week" -> 7
    [] timeframe = "1 month" -> 30
    [] timeframe = "3 months" -> 90
    [] OTHER -> 30

\* historical_data[historical_data['date'] >= start_date], dates converted first
FilterWindow(rows, t, days) ==
  SelectSeq(rows, LAMBDA r : ToDatetime(r.date).ts >= t - days * SecondsPerDay)

\* the ladder with the first threshold inclusive (>= 5)
TrendOfInclusive(pct) ==
  IF ~RatLT(pct, 5) THEN "strongly increasing"
  ELSE IF RatGT(pct, 1) THEN "slightly increasing"
  ELSE IF RatLT(pct, -5) THEN "strongly decreasing"
  ELSE IF RatLT(pct, -1) THEN "slightly decreasing"
  ELSE "stable"

\* the threshold ladder on price_change_pct
TrendOf(pct) ==
  IF RatGT(pct, 5) THEN "strongly increasing"
  ELSE IF RatGT(pct, 1) THEN "slightly increasing"
  ELSE IF RatLT(pct, -5) THEN "strongly decreasing"
  ELSE IF RatLT(pct, -1) THEN "slightly decreasing"
  ELSE "stable"

\* points of the recent mean, and the farthest offset of the earlier mean
ProjectionSpan == 7
ProjectionReach == 14

\* a projection that needs more than 8 points
RecentTrendAboveEight(prices) ==
  IF Len(prices) > ProjectionSpan + 1
    THEN LET a == Mean(ILocLast(prices, ProjectionSpan, 0))
             b == Mean(ILocLast(prices, ProjectionReach, ProjectionSpan))
         IN  Rat(a.num * b.den - b.num * a.den, a.den * b.den)
    ELSE Rat(0, 1)

\* recent_trend: mean of the last 7 points minus mean of the points at -14..-8
RecentTrend(prices) ==
  IF Len(prices) > ProjectionSpan
    THEN LET a == Mean(ILocLast(prices, ProjectionSpan, 0))
             b == Mean(ILocLast(prices, ProjectionReach, ProjectionSpan))
         IN  Rat(a.num * b.den - b.num * a.den, a.den * b.den)
    ELSE Rat(0, 1)

\* the metrics of a non-empty window (price of the first row is positive)
PriceAnalysis(crop, timeframe, window) ==
  LET prices == MapField(window, "price")
      current_price == prices[Len(prices)]
      price_change == prices[Len(prices)] - prices[1]
      price_change_pct == Rat(price_change * 100, prices[1])
      recent_trend == RecentTrend(prices)
      projected_price == Rat(current_price * recent_trend.den + recent_trend.num, recent_trend.den)
  IN  [crop |-> crop,
       timeframe |-> timeframe,
       current_price |-> current_price,
       average_price |-> Mean(prices),
       price_change |-> price_change,
       price_change_pct |-> price_change_pct,
       trend |-> TrendOf(price_change_pct),
       volatility |-> Variance(prices),
       projected_price |-> projected_price,
       projection_pct |-> Rat((projected_price.num - current_price * projected_price.den) * 100,
                              current_price * projected_price.den)]

\* analyze_price_trends after the load: historical_data['date'][0] raises on an empty frame
PriceTrends(crop, timeframe, rows, t) ==
  IF Len(rows) = 0 THEN Raised("KeyError")
  ELSE LET window == FilterWindow(rows, t, DaysOf(timeframe))
       IN  IF Len(window) > 0 THEN Returned(PriceAnalysis(crop, timeframe, window))
           ELSE ReturnedNone

\* value_counts().get(label, 0)
CountLabel(rows, label) == Cardinality({i \in 1..Len(rows) : rows[i].sentiment = label})

\* the ladder with the first threshold inclusive (>= 0.5)
SentimentTrendOfInclusive(score) ==
  IF 2 * score.num >= score.den THEN "strongly positive"
  ELSE IF 10 * score.num > score.den THEN "positive"
  ELSE IF 2 * score.num < -score.den THEN "strongly negative"
  ELSE IF 10 * score.num < -score.den THEN "negative"
  ELSE "neutral"

\* the threshold ladder on sentiment_score: 0.5 is 1/2, 0.1 is 1/10
SentimentTrendOf(score) ==
  IF 2 * score.num > score.den THEN "strongly positive"
  ELSE IF 10 * score.num > score.den THEN "positive"
  ELSE IF 2 * score.num < -score.den THEN "strongly negative"
  ELSE IF 10 * score.num < -score.den THEN "negative"
  ELSE "neutral"

SentimentScore(pos_count, neg_count, total_count) ==
  IF total_count > 0 THEN Rat(pos_count - neg_count, total_count) ELSE Rat(0, 1)

\* analyze_market_sentiment after the load
MarketSentiment(crop, rows) ==
  IF Len(rows) > 0
    THEN LET pos_count == CountLabel(rows, "positive")
             neg_count == CountLabel(rows, "negative")
             neutral_count == CountLabel(rows, "neutral")
             score == SentimentScore(pos_count, neg_count, pos_count + neg_count + neutral_count)
         IN  Returned([crop |-> crop,
                       sentiment_score |-> score,
                       sentiment_trend |-> SentimentTrendOf(score),
                       positive_news_count |-> pos_count,
                       negative_news_count |-> neg_count,
                       neutral_news_count |-> neutral_count,
                       headlines |-> MapField(rows, "headline")])
    ELSE ReturnedNone

\* the ladder with corn's first test a conjunction (cold and dry) instead of a disjunction
WeatherImpactOfCornAnd(crop, avg_temp, total_precip) ==
  IF crop = "wheat"
    THEN IF (RatGT(avg_temp, 25) /\ total_precip < 10) \/ (RatLT(avg_temp, 15) /\ total_precip > 30)
           THEN <<"negative", "stress">>
         ELSE <<"neutral to positive", "favorable">>
  ELSE IF crop = "corn"
    THEN IF (RatLT(avg_temp, 18) /\ total_precip < 15) \/ (RatGT(avg_temp, 30) /\ total_precip < 20)
           THEN <<"negative", "stress">>
         ELSE <<"neutral to positive", "favorable">>
  ELSE IF crop = "soybeans"
    THEN IF RatLT(avg_temp, 20) \/ total_precip < 10 \/ total_precip > 40
           THEN <<"negative", "stress">>
         ELSE <<"neutral to positive", "favorable">>
  ELSE <<"uncertain", "not calibrated">>

\* the crop-specific ladder on (avg_temp, total_precip): <<impact, explanation>>
WeatherImpactOf(crop, avg_temp, total_precip) ==
  IF crop = "wheat"
    THEN IF RatGT(avg_temp, 25) /\ total_precip < 10
           THEN <<"negative", "High temperatures and low precipitation may stress wheat crops.">>
         ELSE IF RatLT(avg_temp, 15) /\ total_precip > 30
           THEN <<"negative", "Low temperatures and excessive rainfall may damage wheat crops.">>
         ELSE <<"neutral to positive", "Weather conditions appear favorable for wheat crops.">>
  ELSE IF crop = "corn"
    THEN IF RatLT(avg_temp, 18) \/ total_precip < 15
           THEN <<"negative", "Low temperatures or insufficient rainfall may reduce corn yields.">>
         ELSE IF RatGT(avg_temp, 30) /\ total_precip < 20
           THEN <<"negative", "High heat and insufficient moisture may stress corn crops.">>
         ELSE <<"neutral to positive", "Weather conditions appear favorable for corn growth.">>
  ELSE IF crop = "soybeans"
    THEN IF RatLT(avg_temp, 20) \/ total_precip < 10
           THEN <<"negative", "Low temperatures or dry conditions may reduce soybean yields.">>
         ELSE IF total_precip > 40
           THEN <<"negative", "Excessive rainfall may lead to disease pressure in soybeans.">>
         ELSE <<"neutral to positive", "Weather conditions appear favorable for soybean development.">>
  ELSE <<"uncertain", "Weather impact analysis not specifically calibrated for " \o crop \o ".">>

\* analyze_weather_impact after the load
WeatherImpact(crop, region, rows) ==
  IF Len(rows) > 0
    THEN LET avg_temp == Mean(MapField(rows, "temperature"))
             total_precip == SumSeq(MapField(rows, "precipitation"))
             verdict == WeatherImpactOf(crop, avg_temp, total_precip)
         IN  Returned([crop |-> crop,
                       region |-> region,
                       average_temperature |-> avg_temp,
                       total_precipitation |-> total_precip,
                       weather_impact |-> verdict[1],
                       explanation |-> verdict[2]])
    ELSE ReturnedNone

----------------------------------------------------------------------------
(* data_analyzer.py: the methods, on the analyzer's world                  *)
(* w = [priceFile, newsFile, weatherFile, results]; each gives [w, ret]    *)
(* and rows, the length of the DataFrame it loaded                         *)

\* d[key] = value
Put(d, key, value) == [k \in DOMAIN d \cup {key} |-> IF k = key THEN value ELSE d[k]]

PriceKey(crop, timeframe) == crop \o "_" \o timeframe
SentimentKey(crop) == crop \o "_sentiment"
WeatherKey(crop) == crop \o "_weather"

\* self.analysis_results[key] = analysis, only when an analysis was produced
Store(results, key, ret) == IF ret.kind = "value" THEN Put(results, key, ret.value) ELSE results

\* the end of an analyzer: the file the load left, the result stored under the key
Analyzed(w, file_field, file, key, ret, rows) ==
  [w |-> [w EXCEPT ![file_field] = file, !.results = Store(w.results, key, ret)],
   ret |-> ret, rows |-> rows]

analyze_price_trends(w, crop, timeframe, t, prices) ==
  Analyzed(w, "priceFile",
           LoadPrices(w.priceFile, crop, FALSE, t, prices)[1],
           PriceKey(crop, timeframe),
           PriceTrends(crop, timeframe, LoadPrices(w.priceFile, crop, FALSE, t, prices)[2], t),
           Len(LoadPrices(w.priceFile, crop, FALSE, t, prices)[2]))

analyze_market_sentiment(w, crop, t, picks) ==
  Analyzed(w, "newsFile",
           LoadNews(w.newsFile, crop, FALSE, t, picks)[1],
           SentimentKey(crop),
           MarketSentiment(crop, LoadNews(w.newsFile, crop, FALSE, t, picks)[2]),
           Len(LoadNews(w.newsFile, crop, FALSE, t, picks)[2]))

analyze_weather_impact(w, crop, region, t, days) ==
  Analyzed(w, "weatherFile",
           LoadWeather(w.weatherFile, region, FALSE, t, days)[1],
           WeatherKey(crop),
           WeatherImpact(crop, region, LoadWeather(w.weatherFile, region, FALSE, t, days)[2]),
           Len(LoadWeather(w.weatherFile, region, FALSE, t, days)[2]))

\* datetime.now().strftime('%Y-%m-%d')
DateOf(t) == t \div SecondsPerDay

\* a memo test that runs the analyzer on every call
NeedsRunAlways(results, key) == TRUE

\* the memo test of get_comprehensive_analysis: run the analyzer when the key is absent
NeedsRun(results, key) == key \notin DOMAIN results

\* The aggregator's progress g = [w, ret, ran, empty]: ran the analyzers it executed, empty
\* those of them that loaded a DataFrame with no rows, ret an exception on its way out.
Started(w) == [w |-> w, ret |-> ReturnedNone, ran |-> {}, empty |-> {}]

\* one "if key not in self.analysis_results: self.analyze_...()" statement; r is what
\* the analyzer does when it runs
Stage(g, analyzer, key, r) ==
  IF g.ret.kind = "raise" \/ ~NeedsRun(g.w.results, key) THEN g
  ELSE [w |-> r.w,
        ret |-> IF r.ret.kind = "raise" THEN r.ret ELSE ReturnedNone,
        ran |-> g.ran \cup {analyzer},
        empty |-> g.empty \cup (IF r.rows = 0 THEN {analyzer} ELSE {})]

PriceStage(g, crop, timeframe, t, prices) ==
  Stage(g, "price", PriceKey(crop, timeframe), analyze_price_trends(g.w, crop, timeframe, t, prices))
SentimentStage(g, crop, t, picks) ==
  Stage(g, "sentiment", SentimentKey(crop), analyze_market_sentiment(g.w, crop, t, picks))
WeatherStage(g, crop, t, days) ==
  Stage(g, "weather", WeatherKey(crop), analyze_weather_impact(g.w, crop, "midwest", t, days))

\* the combined record, unless an analyzer raised
Combined(g, crop, timeframe, t) ==
  IF g.ret.kind = "raise" THEN g
  ELSE [g EXCEPT !.ret =
          Returned([crop |-> crop,
                    timeframe |-> timeframe,
                    price_analysis |-> PyGet(g.w.results, PriceKey(crop, timeframe), EmptyDict),
                    sentiment_analysis |-> PyGet(g.w.results, SentimentKey(crop), EmptyDict),
                    weather_analysis |-> PyGet(g.w.results, WeatherKey(crop), EmptyDict),
                    analysis_date |-> DateOf(t)])]

\* get_comprehensive_analysis: [w, ret, ran, empty]
get_comprehensive_analysis(w, crop, timeframe, t, prices, picks, days) ==
  Combined(WeatherStage(SentimentStage(PriceStage(Started(w), crop, timeframe, t, prices),
                                       crop, t, picks),
                        crop, t, days),
           crop, timeframe, t)

World == [priceFile |-> priceFile, newsFile |-> newsFile, weatherFile |-> weatherFile,
          results |-> analysis_results]

SetWorld(w) ==
  /\ priceFile' = w.priceFile
  /\ newsFile' = w.newsFile
  /\ weatherFile' = w.weatherFile
  /\ analysis_results' = w.results

NoCall == [op |-> "none"]

\* the clock advances
Tick ==
  /\ now < MaxNow
  /\ now' = now + 1
  /\ UNCHANGED <<priceFile, newsFile, weatherFile, analysis_results, cache, call, requested, adv, run>>

\* the state after an aggregator call that did r
AggregatorDid(crop, timeframe, r) ==
  /\ SetWorld(r.w)
  /\ call' = [op |-> "get_comprehensive_analysis", crop |-> crop, timeframe |-> timeframe,
              repeat |-> <<crop, timeframe>> \in requested, ran |-> r.ran,
              empty |-> r.empty, ret |-> r.ret]
  /\ requested' = requested \cup {<<crop, timeframe>>}
  /\ UNCHANGED <<now, cache, adv, run>>

\* analyzer.get_comprehensive_analysis(crop, timeframe)
GetComprehensiveAnalysis(crops, timeframes, P, N, W) ==
  \E crop \in crops, timeframe \in timeframes, prices \in P, picks \in N, days \in W :
    AggregatorDid(crop, timeframe,
                  get_comprehensive_analysis(World, crop, timeframe, now, prices, picks, days))

\* the presentation layer's "refresh data": the three loads with force_refresh=True
RefreshData(crops, P, N, W) ==
  \E crop \in crops, prices \in P, picks \in N, days \in W :
    /\ priceFile' = LoadPrices(priceFile, crop, TRUE, now, prices)[1]
    /\ newsFile' = LoadNews(newsFile, crop, TRUE, now, picks)[1]
    /\ weatherFile' = LoadWeather(weatherFile, "midwest", TRUE, now, days)[1]
    /\ UNCHANGED <<now, analysis_results, cache, call, requested, adv, run>>

----------------------------------------------------------------------------
(* llm_interface.py *)

\* hashlib.md5(f"{str(analysis_data)}_{farmer_query}"): one key per (analysis, query)
CacheKey(analysis_data, farmer_query) == <<"md5", analysis_data, farmer_query>>

\* json.dump / json.load of a response: None is written as null and read back as None
JsonValue(v) == IF "none" \in DOMAIN v THEN [null |-> TRUE] ELSE v
PyValue(v) == IF "null" \in DOMAIN v THEN PyNone ELSE v
JsonDump(response) ==
  [json |-> [k \in DOMAIN response |->
               IF k = "data_summary"
                 THEN [f \in DOMAIN response[k] |-> JsonValue(response[k][f])]
                 ELSE response[k]]]
\* a load that drops the data_summary of the entry
JsonLoadWithoutSummary(entry) ==
  [k \in DOMAIN entry.json \ {"data_summary"} |-> entry.json[k]]
JsonLoad(entry) ==
  [k \in DOMAIN entry.json |->
     IF k = "data_summary"
       THEN [f \in DOMAIN entry.json[k] |-> PyValue(entry.json[k][f])]
       ELSE entry.json[k]]
\* a cache file that was opened for writing and never completed
Corrupt == [corrupt |-> TRUE]
Readable(entry) == "json" \in DOMAIN entry

\* datetime.now().strftime('%Y-%m-%d %H:%M:%S')
TimestampOf(t) == <<DateOf(t), t % SecondsPerDay>>

\* the fields _format_prompt formats as floats (:.2f, :.1f) with the default 'N/A'
PriceFloatFields == {"current_price", "price_change_pct", "projection_pct", "volatility"}
WeatherFloatFields == {"average_temperature", "total_precipitation"}

\* whether an f-string float field formats: the str default 'N/A' does not
Formats(d, fields) == \A f \in fields : f \in DOMAIN d

\* sentiment_analysis.get('headlines', [])[:3]
FirstThree(xs) == SubSeq(xs, 1, IF Len(xs) < 3 THEN Len(xs) ELSE 3)

\* _format_prompt: the prompt, or the ValueError of formatting 'N/A' as a float
FormatPrompt(crop, timeframe, price_analysis, sentiment_analysis, weather_analysis, farmer_query) ==
  IF Formats(price_analysis, PriceFloatFields) /\ Formats(weather_analysis, WeatherFloatFields)
    THEN Returned([crop |-> <<"upper", crop>>,
                   timeframe |-> timeframe,
                   price |-> [f \in PriceFloatFields |-> price_analysis[f]],
                   trend |-> PyGet(price_analysis, "trend", "N/A"),
                   sentiment_trend |-> PyGet(sentiment_analysis, "sentiment_trend", "N/A"),
                   headlines |-> FirstThree(PyGet(sentiment_analysis, "headlines", <<>>)),
                   weather_impact |-> PyGet(weather_analysis, "weather_impact", "N/A"),
                   explanation |-> PyGet(weather_analysis, "explanation", "N/A"),
                   weather |-> [f \in WeatherFloatFields |-> weather_analysis[f]],
                   query |-> farmer_query])
    ELSE Raised("ValueError")

\* an except branch that keeps a data_summary field
DegradedResponseWithSummary(farmer_query, crop, error, t) ==
  [query |-> farmer_query,
   crop |-> crop,
   advice |-> "Unable to generate advisory at this time. Error: " \o error,
   data_summary |-> EmptyDict,
   timestamp |-> TimestampOf(t)]

\* the response of the except branch
DegradedResponse(farmer_query, crop, error, t) ==
  [query |-> farmer_query,
   crop |-> crop,
   advice |-> "Unable to generate advisory at this time. Error: " \o error,
   timestamp |-> TimestampOf(t)]

\* the response of the try branch
AdvisoryResponse(analysis_data, farmer_query, advice_text, t) ==
  [query |-> farmer_query,
   crop |-> analysis_data.crop,
   advice |-> advice_text,
   data_summary |->
     [current_price |-> PyGetOrNone(analysis_data.price_analysis, "current_price"),
      price_trend |-> PyGetOrNone(analysis_data.price_analysis, "trend"),
      projected_price_change |-> PyGetOrNone(analysis_data.price_analysis, "projection_pct"),
      market_sentiment |-> PyGetOrNone(analysis_data.sentiment_analysis, "sentiment_trend"),
      weather_impact |-> PyGetOrNone(analysis_data.weather_analysis, "weather_impact")],
   timestamp |-> TimestampOf(t)]

\* what the external chat service does: generated text, or an error (a provider or network
\* error, or a response with no choices)
LLMOutcomes ==
  {[ok |-> TRUE, text |-> "Hold for now."],
   [ok |-> FALSE, error |-> "APIConnectionError"],
   [ok |-> FALSE, error |-> "IndexError"]}
\* reading the cache file: it opens, or open() fails
ReadOutcomes == {"ok", "open fails"}
\* writing it: written, open() fails (file untouched), or the dump fails after open()
\* truncated the file
WriteOutcomes == {"ok", "open fails", "dump fails"}

\* a cache test that never finds the entry
ServesCacheNever(c, key, force_refresh, read) == FALSE

\* whether the cached entry is served: the test of line 29 and the try of lines 30-34
ServesCache(c, key, force_refresh, read) ==
  ~force_refresh /\ key \in DOMAIN c /\ read = "ok" /\ Readable(c[key])

\* a try block that returns the generated response and never writes the entry
ReturnWithoutWrite(c, key, response, farmer_query, crop, write, t) ==
  [cache |-> c, ret |-> Returned(response)]

\* the try block after a generated response: the cache write and the value returned
WriteAndReturn(c, key, response, farmer_query, crop, write, t) ==
  CASE write = "ok" ->
         [cache |-> Put(c, key, JsonDump(response)), ret |-> Returned(response)]
    [] write = "open fails" ->
         [cache |-> c, ret |-> Returned(DegradedResponse(farmer_query, crop, "OSError", t))]
    [] write = "dump fails" ->
         [cache |-> Put(c, key, Corrupt),
          ret |-> Returned(DegradedResponse(farmer_query, crop, "OSError", t))]

\* an except branch that writes the failure response to the cache file
GeneratePersistsFailure(c, key, analysis_data, farmer_query, llm, write, t) ==
  IF ~llm.ok
    THEN [cache |-> Put(c, key, JsonDump(DegradedResponse(farmer_query, analysis_data.crop,
                                                          llm.error, t))),
          ret |-> Returned(DegradedResponse(farmer_query, analysis_data.crop, llm.error, t)),
          llm |-> "failed"]
    ELSE [cache |-> WriteAndReturn(c, key, AdvisoryResponse(analysis_data, farmer_query, llm.text, t),
                                   farmer_query, analysis_data.crop, write, t).cache,
          ret |-> WriteAndReturn(c, key, AdvisoryResponse(analysis_data, farmer_query, llm.text, t),
                                 farmer_query, analysis_data.crop, write, t).ret,
          llm |-> "ok"]

\* the part of get_advisory after the prompt was built: the external call, and the try block
Generate(c, key, analysis_data, farmer_query, llm, write, t) ==
  IF ~llm.ok
    THEN [cache |-> c,
          ret |-> Returned(DegradedResponse(farmer_query, analysis_data.crop, llm.error, t)),
          llm |-> "failed"]
    ELSE [cache |-> WriteAndReturn(c, key, AdvisoryResponse(analysis_data, farmer_query, llm.text, t),
                                   farmer_query, analysis_data.crop, write, t).cache,
          ret |-> WriteAndReturn(c, key, AdvisoryResponse(analysis_data, farmer_query, llm.text, t),
                                 farmer_query, analysis_data.crop, write, t).ret,
          llm |-> "ok"]

\* get_advisory: [cache, ret, llm], llm whether the external service was invoked
get_advisory(c, analysis_data, farmer_query, force_refresh, read, llm, write, t) ==
  IF ServesCache(c, CacheKey(analysis_data, farmer_query), force_refresh, read)
    THEN [cache |-> c,
          ret |-> Returned(JsonLoad(c[CacheKey(analysis_data, farmer_query)])),
          llm |-> "not called"]
  ELSE IF FormatPrompt(analysis_data.crop, analysis_data.timeframe, analysis_data.price_analysis,
                       analysis_data.sentiment_analysis, analysis_data.weather_analysis,
                       farmer_query).kind = "raise"
    THEN [cache |-> c, ret |-> Raised("ValueError"), llm |-> "not called"]
  ELSE Generate(c, CacheKey(analysis_data, farmer_query), analysis_data, farmer_query, llm, write, t)

\* the state after a get_advisory call that did r
AdvisorDid(analysis_data, farmer_query, force_refresh, read, write, r) ==
  /\ cache' = r.cache
  /\ adv' = [op |-> "get_advisory",
             analysis |-> analysis_data,
             query |-> farmer_query,
             force_refresh |-> force_refresh,
             read |-> IF force_refresh \/ CacheKey(analysis_data, farmer_query) \notin DOMAIN cache
                        THEN "not tried"
                      ELSE IF read = "ok" /\ Readable(cache[CacheKey(analysis_data, farmer_query)])
                        THEN "ok"
                      ELSE "failed",
             llm |-> r.llm,
             write |-> IF r.llm = "ok" THEN write ELSE "not tried",
             at |-> now,
             ret |-> r.ret,
             prev |-> IF adv.op = "none" THEN NoCall
                      ELSE [op |-> "get_advisory",
                            same |-> adv.analysis = analysis_data /\ adv.query = farmer_query,
                            force_refresh |-> adv.force_refresh,
                            ret |-> adv.ret]]
  /\ UNCHANGED <<now, priceFile, newsFile, weatherFile, analysis_results, call, requested, run>>

\* advisor.get_advisory(analysis, query, force_refresh) on the analysis the caller holds;
\* adv.read tells whether the cache file was tried and, when tried, whether it could be read
GetAdvisory(queries) ==
  /\ call.op = "get_comprehensive_analysis"
  /\ call.ret.kind = "value"
  /\ \E farmer_query \in queries, force_refresh \in BOOLEAN, read \in ReadOutcomes,
        llm \in LLMOutcomes, write \in WriteOutcomes :
       AdvisorDid(call.ret.value, farmer_query, force_refresh, read, write,
                  get_advisory(cache, call.ret.value, farmer_query, force_refresh, read, llm,
                               write, now))

----------------------------------------------------------------------------
(* The aggregator over the data source: SpecAnalyzer *)

\* age in days of a price file found on disk at start
FileAgeDays == 100

\* files found on disk at start: none, a table with no rows, old price rows
EmptyTable == CsvFile(<<>>)
OldPriceFile == CsvFile(ToCsv(PriceRows("wheat", 0 - FileAgeDays * SecondsPerDay, <<100, 106>>)))

AnalyzerCrops == {"wheat", "corn"}
AnalyzerTimeframes == {"1 week"}
AnalyzerPrices == {p \in GenPrices : \A i \in 1..Len(p) : p[i] = 100}
AnalyzerNews == {n \in GenNews : Len(n) <= 1 /\ \A i \in 1..Len(n) : n[i] = 1}
AnalyzerWeather == {d \in GenWeather : \A i \in 1..Len(d) : d[i] = <<28, 8>>}

InitAnalyzer ==
  /\ now = 0
  /\ priceFile \in {NoFile, EmptyTable, OldPriceFile}
  /\ newsFile \in {NoFile, EmptyTable}
  /\ weatherFile \in {NoFile, EmptyTable}
  /\ analysis_results = EmptyDict
  /\ cache = EmptyDict
  /\ call = NoCall
  /\ requested = {}
  /\ adv = NoCall
  /\ run = NoCall

NextAnalyzer ==
  \/ Tick
  \/ RefreshData(AnalyzerCrops, AnalyzerPrices, AnalyzerNews, AnalyzerWeather)
  \/ GetComprehensiveAnalysis(AnalyzerCrops, AnalyzerTimeframes, AnalyzerPrices, AnalyzerNews, AnalyzerWeather)

SpecAnalyzer == InitAnalyzer /\ [][NextAnalyzer]_vars

IsAggregatorCall == call.op = "get_comprehensive_analysis"

\* the section of a comprehensive analysis an analyzer fills
SectionOf(analyzer) ==
  CASE analyzer = "price" -> "price_analysis"
    [] analyzer = "sentiment" -> "sentiment_analysis"
    [] analyzer = "weather" -> "weather_analysis"

ComprehensiveKeys ==
  {"crop", "timeframe", "price_analysis", "sentiment_analysis", "weather_analysis", "analysis_date"}

\* C5: a get_comprehensive_analysis call with a (crop, timeframe) requested before on this
\* instance runs none of the three analyzers again, also when the earlier run gave no result.
C5_RepeatRunsNoAnalyzer == (IsAggregatorCall /\ call.repeat) => call.ran = {}

\* C6: when an analyzer of a get_comprehensive_analysis call loaded a dataset with no rows,
\* the call still returns a record with the six keys whose section for that analyzer is the
\* empty record (the analyzer gave None and did not raise).
C6_EmptyDatasetGivesEmptySection ==
  IsAggregatorCall =>
    \A a \in call.empty :
      /\ call.ret.kind = "value"
      /\ DOMAIN call.ret.value = ComprehensiveKeys
      /\ call.ret.value[SectionOf(a)] = EmptyDict

----------------------------------------------------------------------------
(* The analyzers called on their own, over datasets found on disk:         *)
(* SpecPrice, SpecSentiment, SpecWeather                                   *)

\* the state after an analyzer call that did r
AnalyzerDid(op, crop, r) ==
  /\ SetWorld(r.w)
  /\ call' = [op |-> op, crop |-> crop, ret |-> r.ret]
  /\ UNCHANGED <<now, cache, requested, adv, run>>

\* analyzer.analyze_price_trends(crop, timeframe)
AnalyzePriceTrends(crops, timeframes, P) ==
  \E crop \in crops, timeframe \in timeframes, prices \in P :
    AnalyzerDid("analyze_price_trends", crop,
                analyze_price_trends(World, crop, timeframe, now, prices))

\* analyzer.analyze_market_sentiment(crop)
AnalyzeMarketSentiment(crops, N) ==
  \E crop \in crops, picks \in N :
    AnalyzerDid("analyze_market_sentiment", crop,
                analyze_market_sentiment(World, crop, now, picks))

\* analyzer.analyze_weather_impact(crop)
AnalyzeWeatherImpact(crops, W) ==
  \E crop \in crops, days \in W :
    AnalyzerDid("analyze_weather_impact", crop,
                analyze_weather_impact(World, crop, "midwest", now, days))

\* price series around the thresholds of the trend ladder
TrendVals == {94, 95, 99, 100, 101, 105, 106}
PriceTables ==
  {CsvFile(ToCsv(PriceRows("wheat", 0, prices))) :
     prices \in UNION {[1..n -> TrendVals] : n \in 1..MaxRows}}

InitPrice ==
  /\ now = 0
  /\ priceFile \in PriceTables \cup {OldPriceFile}
  /\ newsFile = NoFile
  /\ weatherFile = NoFile
  /\ analysis_results = EmptyDict
  /\ cache = EmptyDict
  /\ call = NoCall
  /\ requested = {}
  /\ adv = NoCall
  /\ run = NoCall

NextPrice == AnalyzePriceTrends({"wheat"}, {"1 week", "1 month"}, GenPrices)

SpecPrice == InitPrice /\ [][NextPrice]_vars

\* news tables by the number of items of each label; "unrated" is a label that is none
\* of positive, negative, neutral
MaxLabelCount == 4
LabelAt(i, p, n, u) ==
  IF i <= p THEN "positive"
  ELSE IF i <= p + n THEN "negative"
  ELSE IF i <= p + n + u THEN "neutral"
  ELSE "unrated"
NewsTable(p, n, u, o) ==
  CsvFile([i \in 1..(p + n + u + o) |->
             [date |-> DateStr(0), crop |-> "wheat", headline |-> <<i, "wheat">>,
              sentiment |-> LabelAt(i, p, n, u)]])
NewsTables ==
  {NewsTable(p, n, u, o) : p \in 0..MaxLabelCount, n \in 0..MaxLabelCount,
                           u \in 0..MaxLabelCount, o \in 0..1}

InitSentiment ==
  /\ now = 0
  /\ priceFile = NoFile
  /\ newsFile \in NewsTables
  /\ weatherFile = NoFile
  /\ analysis_results = EmptyDict
  /\ cache = EmptyDict
  /\ call = NoCall
  /\ requested = {}
  /\ adv = NoCall
  /\ run = NoCall

NextSentiment == AnalyzeMarketSentiment({"wheat"}, GenNews)

SpecSentiment == InitSentiment /\ [][NextSentiment]_vars

\* forecasts around the thresholds of the weather ladders: one day from the grid, or
\* two days from its corners
WeatherTemps == {14, 15, 17, 18, 19, 20, 25, 26, 30, 31}
WeatherPrecips == {9, 10, 14, 15, 19, 20, 30, 31, 40, 41}
WeatherCorners == {<<14, 9>>, <<14, 31>>, <<26, 0>>, <<31, 5>>, <<31, 41>>, <<20, 10>>}
WeatherTables ==
  {CsvFile(ToCsv(WeatherRows("midwest", 0, days))) :
     days \in {<<d>> : d \in WeatherTemps \X WeatherPrecips}
              \cup {<<d, e>> : d \in WeatherCorners, e \in WeatherCorners}}
WeatherCrops == {"wheat", "corn", "soybeans", "rice"}

InitWeather ==
  /\ now = 0
  /\ priceFile = NoFile
  /\ newsFile = NoFile
  /\ weatherFile \in WeatherTables \cup {EmptyTable}
  /\ analysis_results = EmptyDict
  /\ cache = EmptyDict
  /\ call = NoCall
  /\ requested = {}
  /\ adv = NoCall
  /\ run = NoCall

NextWeather == AnalyzeWeatherImpact(WeatherCrops, GenWeather)

SpecWeather == InitWeather /\ [][NextWeather]_vars

----------------------------------------------------------------------------
(* Properties of the analyzers *)

IsPriceCall == call.op = "analyze_price_trends" /\ call.ret.kind = "value"

\* x strictly between / within bounds, for a fraction x
RatGE(r, k) == r.num >= k * r.den
RatLE(r, k) == r.num <= k * r.den

\* C8: for every non-empty price window the trend label is decided by price_change_pct
\* alone: above 5 strongly increasing, in (1, 5] slightly increasing, below -5 strongly
\* decreasing, in [-5, -1) slightly decreasing, in [-1, 1] stable; so exactly 5 is slightly
\* increasing, exactly -5 slightly decreasing, and exactly 1, -1 and 0 are stable.
C8_TrendLadder ==
  IsPriceCall =>
    LET pct == call.ret.value.price_change_pct
        trend == call.ret.value.trend
    IN  /\ (trend = "strongly increasing") <=> RatGT(pct, 5)
        /\ (trend = "slightly increasing") <=> (RatGT(pct, 1) /\ RatLE(pct, 5))
        /\ (trend = "strongly decreasing") <=> RatLT(pct, -5)
        /\ (trend = "slightly decreasing") <=> (RatGE(pct, -5) /\ RatLT(pct, -1))
        /\ (trend = "stable") <=> (RatGE(pct, -1) /\ RatLE(pct, 1))
        /\ RatEq(pct, Rat(5, 1)) => trend = "slightly increasing"
        /\ RatEq(pct, Rat(-5, 1)) => trend = "slightly decreasing"
        /\ (RatEq(pct, Rat(1, 1)) \/ RatEq(pct, Rat(-1, 1)) \/ RatEq(pct, Rat(0, 1))) => trend = "stable"

\* a window whose price change is exactly 5 percent was analyzed
C8_Witness ==
  /\ IsPriceCall
  /\ RatEq(call.ret.value.price_change_pct, Rat(5, 1))
  /\ call.ret.value.trend = "slightly increasing"

IsSentimentCall == call.op = "analyze_market_sentiment"

\* the items of the news table with a label
ItemsLabelled(label) == Len(SelectSeq(newsFile.rows, LAMBDA r : r.sentiment = label))

\* C9: for a non-empty news list the score is (positive - negative) / (positive + negative
\* + neutral), within [-1, 1], and 0 with trend neutral when that total is 0; the trend is
\* strongly positive above 0.5, positive in (0.1, 0.5], strongly negative below -0.5,
\* negative in [-0.5, -0.1), neutral in [-0.1, 0.1]; 3 positive and 1 negative items give
\* positive. For an empty news list the analyzer returns None.
C9_SentimentScoreAndLadder ==
  IsSentimentCall =>
    IF Len(newsFile.rows) = 0
      THEN call.ret = ReturnedNone
      ELSE /\ call.ret.kind = "value"
           /\ LET pos == ItemsLabelled("positive")
                  neg == ItemsLabelled("negative")
                  neu == ItemsLabelled("neutral")
                  total == pos + neg + neu
                  score == call.ret.value.sentiment_score
                  trend == call.ret.value.sentiment_trend
              IN  /\ score.den > 0
                  /\ total > 0 => score.num * total = (pos - neg) * score.den
                  /\ total = 0 => (score.num = 0 /\ trend = "neutral")
                  /\ RatGE(score, -1) /\ RatLE(score, 1)
                  /\ (trend = "strongly positive") <=> 2 * score.num > score.den
                  /\ (trend = "positive") <=> (10 * score.num > score.den /\ 2 * score.num <= score.den)
                  /\ (trend = "strongly negative") <=> 2 * score.num < -score.den
                  /\ (trend = "negative") <=> (2 * score.num >= -score.den /\ 10 * score.num < -score.den)
                  /\ (trend = "neutral") <=> (10 * score.num >= -score.den /\ 10 * score.num <= score.den)
                  /\ (pos = 3 /\ neg = 1 /\ neu = 0) => trend = "positive"

\* 3 positive and 1 negative items were analyzed: the score is exactly 0.5
C9_Witness ==
  /\ IsSentimentCall
  /\ call.ret.kind = "value"
  /\ ItemsLabelled("positive") = 3 /\ ItemsLabelled("negative") = 1 /\ ItemsLabelled("neutral") = 0
  /\ RatEq(call.ret.value.sentiment_score, Rat(1, 2))
  /\ call.ret.value.sentiment_trend = "positive"

IsWeatherCall == call.op = "analyze_weather_impact"

\* the verdict the classification tables give for a crop
ExpectedImpact(crop, t, p) ==
  CASE crop = "wheat" ->
         IF (RatGT(t, 25) /\ p < 10) \/ (RatLT(t, 15) /\ p > 30) THEN "negative" ELSE "neutral to positive"
    [] crop = "corn" ->
         IF (RatLT(t, 18) \/ p < 15) \/ (RatGT(t, 30) /\ p < 20) THEN "negative" ELSE "neutral to positive"
    [] crop = "soybeans" ->
         IF (RatLT(t, 20) \/ p < 10) \/ p > 40 THEN "negative" ELSE "neutral to positive"
    [] OTHER -> "uncertain"

\* C10: for every crop and every non-empty forecast, analyze_weather_impact returns one
\* impact, the one the crop's rule gives for (average_temperature, total_precipitation):
\* wheat negative if (temp > 25 and precip < 10) or (temp < 15 and precip > 30); corn
\* negative if temp < 18 or precip < 15 or (temp > 30 and precip < 20); soybeans negative
\* if temp < 20 or precip < 10 or precip > 40; otherwise neutral to positive; any other
\* crop uncertain.
C10_WeatherClassification ==
  (IsWeatherCall /\ Len(weatherFile.rows) > 0) =>
    /\ call.ret.kind = "value"
    /\ call.ret.value.weather_impact \in {"negative", "neutral to positive", "uncertain"}
    /\ call.ret.value.weather_impact =
         ExpectedImpact(call.crop, call.ret.value.average_temperature,
                        call.ret.value.total_precipitation)

\* corn under a warm but dry forecast: negative by the "or" of its first rule
C10_Witness ==
  /\ IsWeatherCall
  /\ call.crop = "corn"
  /\ call.ret.kind = "value"
  /\ RatGE(call.ret.value.average_temperature, 18)
  /\ call.ret.value.total_precipitation < 15
  /\ call.ret.value.weather_impact = "negative"

----------------------------------------------------------------------------
(* The whole pipeline, from the data source to the advisory: Spec *)

PipelineCrops == {"wheat"}
PipelineTimeframes == {"1 month"}
PipelineQueries == {"Should I sell my wheat now or wait?"}

Init ==
  /\ now = 0
  /\ priceFile \in {NoFile, OldPriceFile}
  /\ newsFile \in {NoFile, EmptyTable}
  /\ weatherFile \in {NoFile, EmptyTable}
  /\ analysis_results = EmptyDict
  /\ cache = EmptyDict
  /\ call = NoCall
  /\ requested = {}
  /\ adv = NoCall
  /\ run = NoCall

Next ==
  \/ Tick
  \/ GetComprehensiveAnalysis(PipelineCrops, PipelineTimeframes, AnalyzerPrices, AnalyzerNews, AnalyzerWeather)
  \/ GetAdvisory(PipelineQueries)

Spec == Init /\ [][Next]_vars

----------------------------------------------------------------------------
(* Properties of get_advisory *)

IsAdvisorCall == adv.op = "get_advisory"
AdvisorReturned == IsAdvisorCall /\ adv.ret.kind = "value"

DegradedKeys == {"query", "crop", "advice", "timestamp"}
ResponseKeys == DegradedKeys \cup {"data_summary"}
FailurePrefix == "Unable to generate advisory at this time. Error: "

\* the error texts the external call can fail with
LLMErrors == {o.error : o \in {x \in LLMOutcomes : ~x.ok}}

\* a response of the documented shape for the call that returned it
WellFormed(response) ==
  /\ DOMAIN response \in {DegradedKeys, ResponseKeys}
  /\ response.query = adv.query
  /\ response.crop = adv.analysis.crop

\* C1: when the external LLM call of get_advisory fails, get_advisory does not raise; it
\* returns a response with exactly the fields query, crop, advice and timestamp (no
\* data_summary), whose advice is the failure message with the error text.
C1_LLMFailureDegrades ==
  (IsAdvisorCall /\ adv.llm = "failed") =>
    /\ adv.ret.kind = "value"
    /\ DOMAIN adv.ret.value = DegradedKeys
    /\ adv.ret.value.query = adv.query
    /\ adv.ret.value.crop = adv.analysis.crop
    /\ \E e \in LLMErrors : adv.ret.value.advice = FailurePrefix \o e
    /\ adv.ret.value.timestamp = TimestampOf(adv.at)

\* the external call failed and the degraded response came back
C1_Witness ==
  /\ IsAdvisorCall
  /\ adv.llm = "failed"
  /\ adv.ret.kind = "value"
  /\ adv.ret.value.advice = FailurePrefix \o "APIConnectionError"
  /\ "data_summary" \notin DOMAIN adv.ret.value

\* C2: a get_advisory call that misses the cache does not raise, whatever comprehensive
\* analysis it is given (also one with an empty price, sentiment or weather section): it
\* returns a well-formed response, normal or degraded.
C2_MissNeverRaises ==
  (IsAdvisorCall /\ adv.read # "ok") =>
    /\ adv.ret.kind = "value"
    /\ WellFormed(adv.ret.value)

\* two consecutive calls with the same analysis and query, both with force_refresh=False,
\* both returning
ConsecutiveSameCalls ==
  /\ AdvisorReturned
  /\ ~adv.force_refresh
  /\ adv.prev.op = "get_advisory"
  /\ adv.prev.same
  /\ ~adv.prev.force_refresh
  /\ adv.prev.ret.kind = "value"

C4_CacheFailureNotFatal ==
  (IsAdvisorCall /\ (adv.read = "failed" \/ adv.write \in {"open fails", "dump fails"})) =>
    /\ adv.ret.kind = "value"
    /\ adv.llm = "ok" =>
         /\ DOMAIN adv.ret.value = ResponseKeys
         /\ \E o \in LLMOutcomes : o.ok /\ adv.ret.value.advice = o.text

\* C7: get_advisory with force_refresh=True invokes the external service, returns a
\* response stamped with the time of the call, and when the external call succeeded that
\* response is the entry persisted under the cache key.
C7_ForceRefreshRegenerates ==
  (IsAdvisorCall /\ adv.force_refresh) =>
    /\ adv.llm # "not called"
    /\ adv.ret.kind = "value"
    /\ adv.ret.value.timestamp = TimestampOf(adv.at)
    /\ adv.llm = "ok" =>
         /\ CacheKey(adv.analysis, adv.query) \in DOMAIN cache
         /\ cache[CacheKey(adv.analysis, adv.query)] = JsonDump(adv.ret.value)

----------------------------------------------------------------------------
(* Properties of the advisory cache *)

\* the cache key of the last get_advisory call
KeyOf(a) == CacheKey(a.analysis, a.query)

\* the last call found a readable entry under its key and force_refresh was False
CacheHit(a) == a.op = "get_advisory" /\ ~a.force_refresh /\ a.read = "ok"

\* C11: on a cache hit (an entry is persisted and readable under the key of the call's
\* analysis and query, and force_refresh is False) get_advisory returns exactly the
\* persisted response, does not invoke the external service, and leaves every persisted
\* cache entry as it was.
C11_HitServesPersistedUntouched ==
  [][CacheHit(adv') =>
       /\ cache' = cache
       /\ adv'.llm = "not called"
       /\ adv'.ret.kind = "value"
       /\ KeyOf(adv') \in DOMAIN cache
       /\ JsonDump(adv'.ret.value) = cache[KeyOf(adv')]]_vars

\* a call later than the one that persisted the entry was served the entry, its
\* data_summary included, without the external service
C11_Witness ==
  /\ CacheHit(adv)
  /\ adv.llm = "not called"
  /\ adv.ret.kind = "value"
  /\ JsonDump(adv.ret.value) = cache[KeyOf(adv)]
  /\ "data_summary" \in DOMAIN adv.ret.value
  /\ adv.at > 0

\* C12: whenever get_advisory returns a response that carries a data_summary, the entry
\* persisted under the cache key of the call's analysis and query is that response when
\* the call returns: the write happens before the return.
C12_ReturnedResponseIsPersisted ==
  (AdvisorReturned /\ "data_summary" \in DOMAIN adv.ret.value) =>
    /\ KeyOf(adv) \in DOMAIN cache
    /\ Readable(cache[KeyOf(adv)])
    /\ JsonLoad(cache[KeyOf(adv)]) = adv.ret.value

\* the external call succeeded, the entry was written, and the response returned is the
\* entry under the key
C12_Witness ==
  /\ AdvisorReturned
  /\ adv.llm = "ok"
  /\ adv.write = "ok"
  /\ "data_summary" \in DOMAIN adv.ret.value
  /\ adv.ret.value.timestamp = TimestampOf(adv.at)
  /\ KeyOf(adv) \in DOMAIN cache
  /\ JsonLoad(cache[KeyOf(adv)]) = adv.ret.value

----------------------------------------------------------------------------
(* Properties of the aggregator's memo *)

Analyzers == {"price", "sentiment", "weather"}

\* the memo key an analyzer stores under
MemoKey(analyzer, crop, timeframe) ==
  CASE analyzer = "price" -> PriceKey(crop, timeframe)
    [] analyzer = "sentiment" -> SentimentKey(crop)
    [] analyzer = "weather" -> WeatherKey(crop)

\* the dataset file an analyzer loads
FileOf(analyzer, w) ==
  CASE analyzer = "price" -> w.priceFile
    [] analyzer = "sentiment" -> w.newsFile
    [] analyzer = "weather" -> w.weatherFile

\* this step is a get_comprehensive_analysis call
AggregatorStep == call' # call /\ call'.op = "get_comprehensive_analysis"

\* C13: across every interleaving of force refreshes of the data source and
\* get_comprehensive_analysis calls on one analyzer, a record stored under a memo key stays
\* as stored, and every later get_comprehensive_analysis call for that key returns that
\* record: the call does not run the analyzer again and leaves the dataset file as it is,
\* also when the data was refreshed after the record was stored.
C13_StoredRecordReturnedAfterRefresh ==
  [][/\ \A k \in DOMAIN analysis_results :
          k \in DOMAIN analysis_results' /\ analysis_results'[k] = analysis_results[k]
     /\ AggregatorStep =>
          \A a \in Analyzers :
            MemoKey(a, call'.crop, call'.timeframe) \in DOMAIN analysis_results =>
              /\ a \notin call'.ran
              /\ call'.ret.kind = "value"
              /\ call'.ret.value[SectionOf(a)] =
                   analysis_results[MemoKey(a, call'.crop, call'.timeframe)]
              /\ FileOf(a, World') = FileOf(a, World)]_vars

\* a repeated call for wheat returned the sentiment record computed from wheat's news
\* while the news file holds the rows a later refresh generated for corn
C13_Witness ==
  /\ IsAggregatorCall
  /\ call.crop = "wheat"
  /\ call.repeat
  /\ call.ran = {}
  /\ call.ret.kind = "value"
  /\ call.ret.value.sentiment_analysis # EmptyDict
  /\ call.ret.value.sentiment_analysis.headlines[1][2] = "wheat"
  /\ newsFile.exists
  /\ Len(newsFile.rows) > 0
  /\ newsFile.rows[1].crop = "corn"

----------------------------------------------------------------------------
(* The price projection over windows of up to MaxSeriesLen points: SpecProjection *)

\* points of the longest price table
MaxSeriesLen == 15

\* a daily price series: 100, 102, 99, 101, 105, 108, 107, 110, then further prices
SeriesHead == <<100, 102, 99, 101, 105, 108, 107, 110>>
SeriesPrice(i) == IF i <= Len(SeriesHead) THEN SeriesHead[i] ELSE 100 + ((i * 7) % 11)

\* price tables on disk: every run of consecutive days of the series, ending today
SeriesTables ==
  {CsvFile(ToCsv(PriceRows("wheat", 0, [k \in 1..(j - i + 1) |-> SeriesPrice(i + k - 1)]))) :
     i \in 1..MaxSeriesLen, j \in 1..MaxSeriesLen} \ {EmptyTable}

InitProjection ==
  /\ now = 0
  /\ priceFile \in {f \in SeriesTables : Len(f.rows) > 0}
  /\ newsFile = NoFile
  /\ weatherFile = NoFile
  /\ analysis_results = EmptyDict
  /\ cache = EmptyDict
  /\ call = NoCall
  /\ requested = {}
  /\ adv = NoCall
  /\ run = NoCall

NextProjection == AnalyzePriceTrends({"wheat"}, {"1 week", "1 month"}, AnalyzerPrices)

SpecProjection == InitProjection /\ [][NextProjection]_vars

\* the prices of the window the last analyze_price_trends call analyzed
WindowPrices ==
  MapField(FilterWindow(priceFile.rows, now, DaysOf(call.ret.value.timeframe)), "price")

\* xs[lo] + ... + xs[hi]
RECURSIVE SumOver(_, _, _)
SumOver(xs, lo, hi) == IF lo > hi THEN 0 ELSE xs[lo] + SumOver(xs, lo + 1, hi)

\* the first of the points at offsets -14..-8 that exists in a window of n points
EarlierFrom(n) == IF n - 13 < 1 THEN 1 ELSE n - 13

\* C14: analyze_price_trends gives a zero-change projection (projected_price =
\* current_price, projection_pct = 0) for a window of at most 7 points; for a window of n > 7
\* points projected_price = current_price + (mean of the last 7 points - mean of the points
\* at offsets -14..-8 that exist in the window); the window 100, 102, 99, 101, 105, 108,
\* 107, 110 gives a projection_pct different from 0.
C14_Projection ==
  IsPriceCall =>
    LET xs == WindowPrices
        n == Len(xs)
        m == n - 7 - EarlierFrom(n) + 1
        v == call.ret.value
    IN  /\ v.current_price = xs[n]
        /\ n <= 7 => /\ RatEq(v.projected_price, Rat(xs[n], 1))
                     /\ v.projection_pct.num = 0
        /\ n > 7 => /\ m >= 1 /\ m <= 7
                    /\ v.projected_price.den # 0
                    /\ RatEq(v.projected_price,
                             Rat(xs[n] * 7 * m + SumOver(xs, n - 6, n) * m
                                   - SumOver(xs, EarlierFrom(n), n - 7) * 7,
                                 7 * m))
        /\ xs = SeriesHead => v.projection_pct.num # 0

\* the eight-point window of the series was analyzed: its projection is upward
C14_Witness ==
  /\ IsPriceCall
  /\ WindowPrices = SeriesHead
  /\ RatGT(call.ret.value.projected_price, 110)
  /\ RatGT(call.ret.value.projection_pct, 0)

----------------------------------------------------------------------------
(* The aggregator with any timeframe label: SpecLabels *)

\* timeframe labels as the command line passes them: a recognized one, and the labels
\* "sentiment" and "weather", which analyze_price_trends takes as 30 days
LabelTimeframes == {"1 month", "sentiment", "weather"}

InitLabels ==
  /\ now = 0
  /\ priceFile \in {NoFile, OldPriceFile}
  /\ newsFile \in {NoFile, EmptyTable}
  /\ weatherFile \in {NoFile, EmptyTable}
  /\ analysis_results = EmptyDict
  /\ cache = EmptyDict
  /\ call = NoCall
  /\ requested = {}
  /\ adv = NoCall
  /\ run = NoCall

NextLabels ==
  \/ Tick
  \/ GetComprehensiveAnalysis(PipelineCrops, LabelTimeframes, AnalyzerPrices, AnalyzerNews, AnalyzerWeather)

SpecLabels == InitLabels /\ [][NextLabels]_vars

\* the fields of the record each analyzer produces
PriceFields ==
  {"crop", "timeframe", "current_price", "average_price", "price_change", "price_change_pct",
   "trend", "volatility", "projected_price", "projection_pct"}
SentimentFields ==
  {"crop", "sentiment_score", "sentiment_trend", "positive_news_count", "negative_news_count",
   "neutral_news_count", "headlines"}
WeatherFields ==
  {"crop", "region", "average_temperature", "total_precipitation", "weather_impact", "explanation"}

FieldsOf(analyzer) ==
  CASE analyzer = "price" -> PriceFields
    [] analyzer = "sentiment" -> SentimentFields
    [] analyzer = "weather" -> WeatherFields

\* C15: for every crop and every timeframe string, each section of the record
\* get_comprehensive_analysis returns is empty or a record of the matching analyzer
\* (price_analysis of analyze_price_trends, sentiment_analysis of analyze_market_sentiment,
\* weather_analysis of analyze_weather_impact): no analyzer's memo key is read as another
\* analyzer's result.
C15_SectionsFromMatchingAnalyzer ==
  (IsAggregatorCall /\ call.ret.kind = "value") =>
    \A a \in Analyzers :
      DOMAIN call.ret.value[SectionOf(a)] \in {{}, FieldsOf(a)}

----------------------------------------------------------------------------
(* Properties of the data an analysis is computed from *)

\* the rows of the dataset an analyzer of this step's call loaded
RowsLoaded(analyzer) == FileOf(analyzer, World').rows

\* C16: after any sequence of loads, force refreshes and analyses for several crops, the
\* price and sentiment analyses a get_comprehensive_analysis call computes for a crop are
\* computed only from rows whose crop field is that crop.
C16_AnalysisFromOwnCropRows ==
  [][(AggregatorStep /\ call'.ret.kind = "value") =>
       \A a \in call'.ran \cap {"price", "sentiment"} :
         call'.ret.value[SectionOf(a)] # EmptyDict =>
           \A i \in 1..Len(RowsLoaded(a)) : RowsLoaded(a)[i].crop = call'.crop]_vars

----------------------------------------------------------------------------
(* Properties of a failed external call *)

\* the readable entries of a cache are responses with a data_summary
HoldsResponsesOnly(c) ==
  \A k \in DOMAIN c : Readable(c[k]) => DOMAIN c[k].json = ResponseKeys

\* C17: a failure response is never persisted. When the external call of get_advisory
\* fails, with or without force_refresh, every persisted cache entry is as it was before
\* the call (a good response persisted earlier is kept, no entry is created for a key that
\* had none), so the next call with the same analysis and query, when its key has no
\* entry, invokes the external service again.
C17_FailureLeavesCacheAlone ==
  [][/\ HoldsResponsesOnly(cache')
     /\ (adv'.op = "get_advisory" /\ adv'.llm = "failed") => cache' = cache
     /\ (/\ adv.op = "get_advisory" /\ adv.llm = "failed"
         /\ KeyOf(adv) \notin DOMAIN cache
         /\ adv' # adv
         /\ KeyOf(adv') = KeyOf(adv))
        => adv'.llm # "not called"]_vars

\* a forced regeneration failed after a good response was persisted under the same key:
\* that response is still the entry
C17_Witness ==
  /\ IsAdvisorCall
  /\ adv.llm = "failed"
  /\ adv.force_refresh
  /\ adv.prev.op = "get_advisory"
  /\ adv.prev.same
  /\ adv.prev.ret.kind = "value"
  /\ "data_summary" \in DOMAIN adv.prev.ret.value
  /\ KeyOf(adv) \in DOMAIN cache
  /\ cache[KeyOf(adv)] = JsonDump(adv.prev.ret.value)
  /\ "data_summary" \notin DOMAIN adv.ret.value

----------------------------------------------------------------------------
(* cli.py: one run of the command line, a new analyzer and advisor over     *)
(* the files on disk: SpecCli                                              *)

\* "Refresh data if requested": the three loads with force_refresh=True
Refreshed(w, refresh, crop, t, prices, picks, days) ==
  IF refresh
    THEN [w EXCEPT !.priceFile = LoadPrices(w.priceFile, crop, TRUE, t, prices)[1],
                   !.newsFile = LoadNews(w.newsFile, crop, TRUE, t, picks)[1],
                   !.weatherFile = LoadWeather(w.weatherFile, "midwest", TRUE, t, days)[1]]
    ELSE w

\* "Display results": what is printed, and the KeyError of advisory['data_summary'] when
\* the response has no such field
Display(advisory) ==
  IF "data_summary" \in DOMAIN advisory
    THEN [printed |-> <<advisory.advice, advisory.data_summary, advisory.timestamp>>,
          exit |-> "ok"]
    ELSE [printed |-> <<advisory.advice>>, exit |-> "KeyError"]

\* the end of a run that stopped on an exception before anything was printed
Aborted(refresh, error) ==
  [op |-> "main", refresh |-> refresh, advisory |-> NoCall, llm |-> "not called",
   printed |-> <<>>, exit |-> error, saved |-> FALSE]

\* main after get_advisory did r: the display, and the results file when --output is given
Shown(w, refresh, output, r) ==
  [w |-> w,
   cache |-> r.cache,
   run |-> IF r.ret.kind = "raise" THEN Aborted(refresh, r.ret.error)
           ELSE [op |-> "main", refresh |-> refresh, advisory |-> r.ret, llm |-> r.llm,
                 printed |-> Display(r.ret.value).printed,
                 exit |-> Display(r.ret.value).exit,
                 saved |-> output /\ Display(r.ret.value).exit = "ok"]]

\* main after get_comprehensive_analysis did g: [w, cache, run]
Main(c, query, refresh, output, t, read, llm, write, g) ==
  IF g.ret.kind = "raise"
    THEN [w |-> g.w, cache |-> c, run |-> Aborted(refresh, g.ret.error)]
    ELSE Shown(g.w, refresh, output,
               get_advisory(c, g.ret.value, query, refresh, read, llm, write, t))

\* the state after a run that did m
CliDid(m) ==
  /\ priceFile' = m.w.priceFile
  /\ newsFile' = m.w.newsFile
  /\ weatherFile' = m.w.weatherFile
  /\ cache' = m.cache
  /\ run' = m.run
  /\ UNCHANGED <<now, analysis_results, call, requested, adv>>

\* python cli.py --crop C --timeframe T --query Q [--refresh] [--output F]
CliMain(crops, timeframes, queries, P, N, W) ==
  \E crop \in crops, timeframe \in timeframes, query \in queries, refresh \in BOOLEAN,
     output \in BOOLEAN, prices \in P, picks \in N, days \in W, read \in ReadOutcomes,
     llm \in LLMOutcomes, write \in WriteOutcomes :
    CliDid(Main(cache, query, refresh, output, now, read, llm, write,
                get_comprehensive_analysis(
                  Refreshed([World EXCEPT !.results = EmptyDict], refresh, crop, now,
                            prices, picks, days),
                  crop, timeframe, now, prices, picks, days)))

NextCli ==
  \/ Tick
  \/ CliMain(PipelineCrops, PipelineTimeframes, PipelineQueries, AnalyzerPrices, AnalyzerNews, AnalyzerWeather)

SpecCli == Init /\ [][NextCli]_vars

\* C18: a command-line run ends normally for every response get_advisory returns: it
\* prints the advice first and terminates without an unhandled error, also when the
\* external call failed and the failure response came back.
C18_CliEndsNormally ==
  (run.op = "main" /\ run.advisory # NoCall) =>
    /\ run.exit = "ok"
    /\ Len(run.printed) > 0
    /\ run.printed[1] = run.advisory.value.advice

====
